---- MODULE Spec2Model ----
(***************************************************************************)
(* Model of tools.py: the dynamic tool registrar create_tool, which        *)
(* appends a rendered definition to tools.py and text-patches agent.py,    *)
(* and the two in-memory list managers manage_notes and manage_todo.       *)
(*                                                                         *)
(* File contents and the strings the registrar searches are sequences of   *)
(* one-character strings, so that Python's substring test, str.replace and *)
(* str.split are computed as Python computes them.                         *)
(***************************************************************************)
EXTENDS Integers, Sequences, FiniteSets, TLC

VARIABLES
    tools_file,     \* tools.py: the definition blocks appended after the shipped ones
    agent_file,     \* agent.py: its text
    ret,            \* create_tool: the arguments and return value of the latest call
    ncalls,         \* number of create_tool calls made so far
    pc,             \* per caller: position inside create_tool
    frame,          \* per caller: the locals of its running create_tool call
    before,         \* per caller: both files as they were when its call began
    todo_list,      \* module global todo_list
    todo_hist,      \* the manage_todo calls made so far
    todo_ret,       \* return value of the latest manage_todo call
    notes_memory,   \* module global notes_memory (never assigned by tools.py)
    notes_hist,     \* the manage_notes calls made so far
    notes_ret       \* return value of the latest manage_notes call

vars == <<tools_file, agent_file, ret, ncalls, pc, frame, before,
          todo_list, todo_hist, todo_ret, notes_memory, notes_hist, notes_ret>>

regVars == <<tools_file, agent_file, ret, ncalls>>
stepVars == <<pc, frame, before>>
todoVars == <<todo_list, todo_hist, todo_ret>>
notesVars == <<notes_memory, notes_hist, notes_ret>>

----------------------------------------------------------------------------
(* Bounds *)

MaxCalls == 3
MaxStepCalls == 2
MaxTodoCalls == 4
MaxNotesCalls == 3

----------------------------------------------------------------------------
(* Python values *)

\* None, for an Optional[str] argument that was not given
None == <<"<None>">>

\* bool(v) of an Optional[str]: None and "" are falsy
Truthy(v) == v # None /\ v # <<>>

\* sub in s
Contains(s, sub) ==
    \E i \in 0..(Len(s) - Len(sub)) : SubSeq(s, i + 1, i + Len(sub)) = sub

\* s.replace(old, new): every non-overlapping occurrence, left to right
RECURSIVE Replace(_, _, _)
Replace(s, old, new) ==
    IF Len(s) < Len(old) THEN s
    ELSE IF SubSeq(s, 1, Len(old)) = old
         THEN new \o Replace(SubSeq(s, Len(old) + 1, Len(s)), old, new)
         ELSE <<Head(s)>> \o Replace(Tail(s), old, new)

\* s.split(sep) for a one-character sep: one more segment than separators
RECURSIVE Split(_, _)
Split(s, sep) ==
    IF \A i \in 1..Len(s) : s[i] # sep THEN <<s>>
    ELSE LET k == CHOOSE i \in 1..Len(s) :
                      s[i] = sep /\ \A j \in 1..(i - 1) : s[j] # sep
         IN <<SubSeq(s, 1, k - 1)>> \o Split(SubSeq(s, k + 1, Len(s)), sep)

----------------------------------------------------------------------------
(* The literals of create_tool *)

\* "from tools import"
ImportAnchor ==
    <<"f","r","o","m"," ","t","o","o","l","s"," ","i","m","p","o","r","t">>

\* "tools=["
ListAnchor == <<"t","o","o","l","s","=","[">>

\* the sixteen blanks after "tools=[\n"
Indent == [i \in 1..16 |-> " "]

\* 'https://example.com/api'
PlaceholderUrl ==
    <<"h","t","t","p","s",":","/","/","e","x","a","m","p","l","e",".","c","o","m",
      "/","a","p","i">>

\* "RAPIDAPI_KEY"
DefaultKeyEnv == "RAPIDAPI_KEY"

----------------------------------------------------------------------------
(* Inputs *)

\* a tool that ships with tools.py and is listed in agent.py from the start
BaseTool == <<"a","b">>

\* names asked of create_tool; "c" is a proper prefix of "cd"
ToolNames == {<<"c">>, <<"d">>, <<"c","d">>}

AllNames == ToolNames \cup {BaseTool}

\* api_url: not given, "", "u", "u/p", "s://h/p"
Urls == {None, <<>>, <<"u">>, <<"u","/","p">>, <<"s",":","/","/","h","/","p">>}

\* api_host: not given, "", "h"
Hosts == {None, <<>>, <<"h">>}

Purposes == {<<"p">>}

\* agent.py as shipped: "from tools import ab\ntools=[ab]"
ShippedAgent ==
    ImportAnchor \o <<" ">> \o BaseTool \o <<"\n">> \o ListAnchor \o BaseTool \o <<"]">>

----------------------------------------------------------------------------
(* create_tool *)

\* HostHeader without the index error: a short api_url is its own host
HostHeaderUnchecked(api_url, api_host) ==
    IF Truthy(api_host) THEN [raised |-> "", value |-> api_host]
    ELSE IF api_url = None THEN [raised |-> "AttributeError", value |-> <<>>]
    ELSE LET parts == Split(api_url, "/")
         IN [raised |-> "", value |-> parts[IF Len(parts) < 3 THEN 1 ELSE 3]]

\* the expression  api_host or api_url.split('/')[2]  of the template:
\* AttributeError when api_url is None, IndexError under three segments
HostHeader(api_url, api_host) ==
    IF Truthy(api_host) THEN [raised |-> "", value |-> api_host]
    ELSE IF api_url = None THEN [raised |-> "AttributeError", value |-> <<>>]
    ELSE LET parts == Split(api_url, "/")
         IN IF Len(parts) < 3 THEN [raised |-> "IndexError", value |-> <<>>]
            ELSE [raised |-> "", value |-> parts[3]]

\* the expression  api_url or 'https://example.com/api'
UrlLine(api_url) == IF Truthy(api_url) THEN api_url ELSE PlaceholderUrl

\* function_code: the template with its holes filled, or the exception
\* raised while the f-string is evaluated
Render(function_name, purpose, api_url, api_host, api_key_env) ==
    LET h == HostHeader(api_url, api_host)
    IN [raised |-> h.raised,
        code   |-> [name    |-> function_name,
                    purpose |-> purpose,
                    url     |-> UrlLine(api_url),
                    key_env |-> api_key_env,
                    host    |-> h.value]]

\* "Insert import": guarded replace of the import anchor
InsertImport(agent_code, function_name) ==
    IF ~Contains(agent_code, ImportAnchor \o <<" ">> \o function_name)
    THEN Replace(agent_code, ImportAnchor,
                 ImportAnchor \o <<" ">> \o function_name \o <<",">>)
    ELSE agent_code

\* "Insert in tools list": guarded replace of the list anchor
InsertInList(agent_code, function_name) ==
    IF ~Contains(agent_code, function_name)
    THEN Replace(agent_code, ListAnchor,
                 ListAnchor \o <<"\n">> \o Indent \o function_name \o <<",">>)
    ELSE agent_code

\* the text written back to agent.py
Patch(agent_code, function_name) ==
    InsertInList(InsertImport(agent_code, function_name), function_name)

\* the block of a tool that ships with tools.py
ShippedBlock(name) ==
    [name |-> name, purpose |-> <<>>, url |-> <<>>, key_env |-> "", host |-> <<>>]

Success == "created and registered successfully"
Failure == "Failed to create function"

CallRecord(function_name, api_url, api_host, result, error) ==
    [name |-> function_name, api_url |-> api_url, api_host |-> api_host,
     result |-> result, error |-> error]

NoCall == CallRecord(<<>>, None, None, "", "")

\* one whole call of create_tool by a single caller, no I/O error
CreateTool(function_name, purpose, api_url, api_host, api_key_env) ==
    LET r == Render(function_name, purpose, api_url, api_host, api_key_env)
    IN /\ ncalls < MaxCalls
       /\ ncalls' = ncalls + 1
       /\ IF r.raised # ""
          THEN /\ ret' = CallRecord(function_name, api_url, api_host, Failure, r.raised)
               /\ UNCHANGED <<tools_file, agent_file>>
          ELSE /\ tools_file' = Append(tools_file, r.code)
               /\ agent_file' = Patch(agent_file, function_name)
               /\ ret' = CallRecord(function_name, api_url, api_host, Success, "")
       /\ UNCHANGED <<stepVars, todoVars, notesVars>>

----------------------------------------------------------------------------
(* create_tool statement by statement: the file operations of one call are *)
(* separate steps, so that calls can interleave and be interrupted         *)

Callers == {1, 2}

Crashed == "crashed"

NoFrame ==
    [name |-> <<>>, code |-> ShippedBlock(<<>>), agent_code |-> <<>>,
     result |-> "", error |-> "", at |-> ""]

\* NextStep with Step 2 run before Step 1: agent.py is rewritten first
NextStepRosterFirst(step) ==
    CASE step = "render" -> "read"
      [] step = "read"   -> "open"
      [] step = "open"   -> "write"
      [] step = "write"  -> "append"
      [] step = "append" -> "return"

\* the order of the statements of the try block: the template, Step 1
\* (append to tools.py), Step 2 (read, patch, reopen and write agent.py)
NextStep(step) ==
    CASE step = "render" -> "append"
      [] step = "append" -> "read"
      [] step = "read"   -> "open"
      [] step = "open"   -> "write"
      [] step = "write"  -> "return"

\* control moves past step; after the last one the call returns its success message
Advance(p, step, fr) ==
    LET nx == NextStep(step)
    IN IF nx = "return"
       THEN /\ pc' = [pc EXCEPT ![p] = "idle"]
            /\ frame' = [frame EXCEPT ![p] = [fr EXCEPT !.result = Success]]
       ELSE /\ pc' = [pc EXCEPT ![p] = nx]
            /\ frame' = [frame EXCEPT ![p] = fr]

\* entry, and evaluation of the template f-string
Call(p, function_name, purpose, api_url, api_host, api_key_env) ==
    LET r == Render(function_name, purpose, api_url, api_host, api_key_env)
        fr == [NoFrame EXCEPT !.name = function_name, !.code = r.code]
    IN /\ pc[p] = "idle"
       /\ ncalls < MaxStepCalls
       /\ ncalls' = ncalls + 1
       /\ before' = [before EXCEPT ![p] = [tools |-> tools_file, agent |-> agent_file]]
       /\ IF r.raised # ""
          THEN /\ frame' = [frame EXCEPT ![p] =
                               [fr EXCEPT !.result = Failure, !.error = r.raised,
                                          !.at = "render"]]
               /\ pc' = pc
          ELSE Advance(p, "render", fr)
       /\ UNCHANGED <<tools_file, agent_file, ret, todoVars, notesVars>>

\* with open(tools_file, "a") as f: f.write(function_code + "\n")
AppendStore(p) ==
    /\ pc[p] = "append"
    /\ tools_file' = Append(tools_file, frame[p].code)
    /\ Advance(p, "append", frame[p])
    /\ UNCHANGED <<agent_file, ret, ncalls, before, todoVars, notesVars>>

\* agent_code = f.read(), then the two guarded replaces on the local copy
ReadRoster(p) ==
    /\ pc[p] = "read"
    /\ Advance(p, "read",
               [frame[p] EXCEPT !.agent_code = Patch(agent_file, frame[p].name)])
    /\ UNCHANGED <<tools_file, agent_file, ret, ncalls, before, todoVars, notesVars>>

\* open(agent_file, "w") truncates the file
OpenRoster(p) ==
    /\ pc[p] = "open"
    /\ agent_file' = <<>>
    /\ Advance(p, "open", frame[p])
    /\ UNCHANGED <<tools_file, ret, ncalls, before, todoVars, notesVars>>

\* f.write(agent_code) and close
WriteRoster(p) ==
    /\ pc[p] = "write"
    /\ agent_file' = frame[p].agent_code
    /\ Advance(p, "write", frame[p])
    /\ UNCHANGED <<tools_file, ret, ncalls, before, todoVars, notesVars>>

\* a file operation raises OSError: the except clause returns the failure message
IOError(p) ==
    /\ pc[p] \in {"append", "read", "open", "write"}
    /\ frame' = [frame EXCEPT ![p] =
                    [@ EXCEPT !.result = Failure, !.error = "OSError", !.at = pc[p]]]
    /\ pc' = [pc EXCEPT ![p] = "idle"]
    /\ UNCHANGED <<tools_file, agent_file, ret, ncalls, before, todoVars, notesVars>>

\* the process dies inside the call
Crash(p) ==
    /\ pc[p] # "idle"
    /\ frame' = [frame EXCEPT ![p] = [@ EXCEPT !.result = Crashed, !.at = pc[p]]]
    /\ pc' = [pc EXCEPT ![p] = "idle"]
    /\ UNCHANGED <<tools_file, agent_file, ret, ncalls, before, todoVars, notesVars>>

----------------------------------------------------------------------------
(* manage_todo *)

\* None for the Optional[str] argument of the list managers
NoText == "<None>"

\* task texts and note texts: not given, "", and two real texts
Texts == {NoText, "", "m", "n"}

\* bool(text)
Given(text) == text # NoText /\ text # ""

Reply(msg, text, lines) == [msg |-> msg, text |-> text, lines |-> lines]

NoReply == Reply("", NoText, <<>>)

\* index of the first record whose task equals task, 0 when there is none
FirstMatch(list, task) ==
    IF \E i \in 1..Len(list) : list[i].task = task
    THEN CHOOSE i \in 1..Len(list) :
             list[i].task = task /\ \A j \in 1..(i - 1) : list[j].task # task
    ELSE 0

\* list without its k-th element
RemoveAt(list, k) == SubSeq(list, 1, k - 1) \o SubSeq(list, k + 1, Len(list))

\* the "remove" loop: todo_list.remove(t) for the first match
TodoRemove(list, task) == RemoveAt(list, FirstMatch(list, task))

\* TodoComplete that finds the task and leaves its flag alone
TodoCompleteNoFlag(list, task) == list

\* the "complete" loop: t["done"] = True for the first match
TodoComplete(list, task) == [list EXCEPT ![FirstMatch(list, task)].done = TRUE]

\* the lines joined by "list": number, check mark, task
TodoFormat(list) ==
    [i \in 1..Len(list) |->
        [num |-> i, mark |-> IF list[i].done THEN "checked" ELSE "cross",
         task |-> list[i].task]]

TodoActions == {"add", "remove", "complete", "list", "clear", "other"}

ManageTodo(action, task) ==
    /\ Len(todo_hist) < MaxTodoCalls
    /\ todo_hist' = Append(todo_hist, [action |-> action, text |-> task])
    /\ CASE action = "add" ->
              IF ~Given(task)
              THEN /\ todo_ret' = Reply("Please specify a task to add.", NoText, <<>>)
                   /\ UNCHANGED todo_list
              ELSE /\ todo_list' = Append(todo_list, [task |-> task, done |-> FALSE])
                   /\ todo_ret' = Reply("Task added", task, <<>>)
         [] action = "remove" ->
              IF ~Given(task)
              THEN /\ todo_ret' = Reply("Please specify a task to remove.", NoText, <<>>)
                   /\ UNCHANGED todo_list
              ELSE IF FirstMatch(todo_list, task) # 0
              THEN /\ todo_list' = TodoRemove(todo_list, task)
                   /\ todo_ret' = Reply("Task removed", task, <<>>)
              ELSE /\ todo_ret' = Reply("Task not found", task, <<>>)
                   /\ UNCHANGED todo_list
         [] action = "complete" ->
              IF ~Given(task)
              THEN /\ todo_ret' = Reply("Please specify a task to mark as completed.",
                                        NoText, <<>>)
                   /\ UNCHANGED todo_list
              ELSE IF FirstMatch(todo_list, task) # 0
              THEN /\ todo_list' = TodoComplete(todo_list, task)
                   /\ todo_ret' = Reply("Task completed", task, <<>>)
              ELSE /\ todo_ret' = Reply("Task not found", task, <<>>)
                   /\ UNCHANGED todo_list
         [] action = "list" ->
              /\ todo_ret' = IF todo_list = <<>>
                             THEN Reply("Your to-do list is empty.", NoText, <<>>)
                             ELSE Reply("Your To-Do List:", NoText, TodoFormat(todo_list))
              /\ UNCHANGED todo_list
         [] action = "clear" ->
              /\ todo_list' = <<>>
              /\ todo_ret' = Reply("All tasks cleared.", NoText, <<>>)
         [] OTHER ->
              /\ todo_ret' = Reply("Invalid action.", NoText, <<>>)
              /\ UNCHANGED todo_list
    /\ UNCHANGED <<regVars, stepVars, notesVars>>

----------------------------------------------------------------------------
(* manage_notes *)

\* the module never assigns notes_memory: the name is unbound, and every
\* statement that evaluates it raises NameError
Unbound == [bound |-> FALSE, items |-> <<>>]

\* index of the first note equal to note, 0 when there is none
FirstNote(items, note) ==
    IF \E i \in 1..Len(items) : items[i] = note
    THEN CHOOSE i \in 1..Len(items) :
             items[i] = note /\ \A j \in 1..(i - 1) : items[j] # note
    ELSE 0

\* the lines joined by "list": number, note
NotesFormat(items) == [i \in 1..Len(items) |-> [num |-> i, note |-> items[i]]]

NotesError == "Error managing notes"

NotesActions == {"add", "remove", "list", "clear", "other"}

\* the except clause: "Error managing notes: name 'notes_memory' is not defined"
NotesRaise == 
    /\ notes_ret' = Reply(NotesError, "NameError", <<>>)
    /\ UNCHANGED notes_memory

ManageNotes(action, note) ==
    /\ Len(notes_hist) < MaxNotesCalls
    /\ notes_hist' = Append(notes_hist, [action |-> action, text |-> note])
    /\ CASE action = "add" ->
              IF ~Given(note)
              THEN /\ notes_ret' = Reply("Please specify a note to add.", NoText, <<>>)
                   /\ UNCHANGED notes_memory
              ELSE IF ~notes_memory.bound THEN NotesRaise
              ELSE /\ notes_memory' =
                          [notes_memory EXCEPT !.items = Append(@, note)]
                   /\ notes_ret' = Reply("Note added", note, <<>>)
         [] action = "remove" ->
              IF ~Given(note)
              THEN /\ notes_ret' = Reply("Please specify a note to remove.", NoText, <<>>)
                   /\ UNCHANGED notes_memory
              ELSE IF ~notes_memory.bound THEN NotesRaise
              ELSE IF FirstNote(notes_memory.items, note) # 0
              THEN /\ notes_memory' =
                          [notes_memory EXCEPT
                              !.items = RemoveAt(@, FirstNote(@, note))]
                   /\ notes_ret' = Reply("Note removed", note, <<>>)
              ELSE /\ notes_ret' = Reply("Note not found", note, <<>>)
                   /\ UNCHANGED notes_memory
         [] action = "list" ->
              IF ~notes_memory.bound THEN NotesRaise
              ELSE /\ notes_ret' =
                          IF notes_memory.items = <<>>
                          THEN Reply("Your to-do list is empty.", NoText, <<>>)
                          ELSE Reply("Your notes:", NoText,
                                     NotesFormat(notes_memory.items))
                   /\ UNCHANGED notes_memory
         [] action = "clear" ->
              IF ~notes_memory.bound THEN NotesRaise
              ELSE /\ notes_memory' = [notes_memory EXCEPT !.items = <<>>]
                   /\ notes_ret' = Reply("All notes cleared.", NoText, <<>>)
         [] OTHER ->
              /\ notes_ret' = Reply("Invalid action.", NoText, <<>>)
              /\ UNCHANGED notes_memory
    /\ UNCHANGED <<regVars, stepVars, todoVars>>

----------------------------------------------------------------------------
(* How the two files are read back *)

IdChars ==
    {"a","b","c","d","e","f","g","h","i","j","k","l","m","n","o","p","q","r",
     "s","t","u","v","w","x","y","z","_"}

\* name stands at position i of text as a whole identifier
OccursAt(text, name, i) ==
    /\ i + Len(name) - 1 <= Len(text)
    /\ SubSeq(text, i, i + Len(name) - 1) = name
    /\ (i = 1 \/ text[i - 1] \notin IdChars)
    /\ (i + Len(name) > Len(text) \/ text[i + Len(name)] \notin IdChars)

AnchorAt(text, anchor, j) ==
    j + Len(anchor) - 1 <= Len(text) /\ SubSeq(text, j, j + Len(anchor) - 1) = anchor

\* position i lies on a "from tools import ..." line, after the anchor
InImport(text, i) ==
    \E j \in 1..i :
        /\ AnchorAt(text, ImportAnchor, j)
        /\ j + Len(ImportAnchor) <= i
        /\ \A k \in j..i : text[k] # "\n"

\* position i lies inside a tools=[ ... ] literal
InList(text, i) ==
    \E j \in 1..i :
        /\ AnchorAt(text, ListAnchor, j)
        /\ j + Len(ListAnchor) <= i
        /\ \A k \in j..i : text[k] # "]"

\* number of times name is imported from tools
ImportRefs(text, name) ==
    Cardinality({i \in 1..Len(text) : OccursAt(text, name, i) /\ InImport(text, i)})

\* number of entries for name in the tools=[...] list
ListEntries(text, name) ==
    Cardinality({i \in 1..Len(text) : OccursAt(text, name, i) /\ InList(text, i)})

\* number of references to name anywhere in agent.py
References(text, name) ==
    Cardinality({i \in 1..Len(text) : OccursAt(text, name, i)})

\* number of definitions of name among the blocks of tools.py
Definitions(store, name) ==
    Cardinality({i \in 1..Len(store) : store[i].name = name})

----------------------------------------------------------------------------
(* Sequential registration: whole calls, one after another *)

InitFiles ==
    /\ tools_file = <<ShippedBlock(BaseTool)>>
    /\ agent_file = ShippedAgent

InitIdle ==
    /\ pc = [p \in Callers |-> "idle"]
    /\ frame = [p \in Callers |-> NoFrame]
    /\ before = [p \in Callers |-> [tools |-> <<>>, agent |-> <<>>]]
    /\ todo_list = <<>>
    /\ todo_hist = <<>>
    /\ todo_ret = NoReply
    /\ notes_memory = Unbound
    /\ notes_hist = <<>>
    /\ notes_ret = NoReply

Init ==
    /\ InitFiles
    /\ ret = NoCall
    /\ ncalls = 0
    /\ InitIdle

Next ==
    \E n \in ToolNames, pu \in Purposes, u \in Urls, h \in Hosts :
        CreateTool(n, pu, u, h, DefaultKeyEnv)

Spec == Init /\ [][Next]_vars

----------------------------------------------------------------------------
(* One caller, statement by statement, with I/O errors and crashes *)

NextCrash ==
    \/ \E n \in ToolNames, pu \in Purposes, u \in Urls, h \in Hosts :
           Call(1, n, pu, u, h, DefaultKeyEnv)
    \/ AppendStore(1)
    \/ ReadRoster(1)
    \/ OpenRoster(1)
    \/ WriteRoster(1)
    \/ IOError(1)
    \/ Crash(1)

SpecCrash == Init /\ [][NextCrash]_vars

----------------------------------------------------------------------------
(* Two callers whose statements interleave *)

NextConc ==
    \E p \in Callers :
        \/ \E n \in ToolNames, pu \in Purposes, u \in Urls, h \in Hosts :
               Call(p, n, pu, u, h, DefaultKeyEnv)
        \/ AppendStore(p)
        \/ ReadRoster(p)
        \/ OpenRoster(p)
        \/ WriteRoster(p)

SpecConc == Init /\ [][NextConc]_vars

----------------------------------------------------------------------------
(* The list managers, called one at a time *)

\* "list", "clear" and an unknown action never look at the text
ListArgs(action) ==
    IF action \in {"list", "clear", "other"} THEN {NoText} ELSE Texts

NextTodo == \E a \in TodoActions : \E t \in ListArgs(a) : ManageTodo(a, t)

SpecTodo == Init /\ [][NextTodo]_vars

NextNotes == \E a \in NotesActions : \E t \in ListArgs(a) : ManageNotes(a, t)

SpecNotes == Init /\ [][NextNotes]_vars

----------------------------------------------------------------------------
(* Properties of the registrar, whole calls (Spec) *)

\* the step is a call of create_tool for name n
CalledWith(n) == ncalls' = ncalls + 1 /\ ret'.name = n

\* at least three '/'-delimited segments
WellFormed(api_url) == api_url # None /\ Len(Split(api_url, "/")) >= 3

\* C1: a call for a name that is neither defined in tools.py nor referenced
\* in agent.py, with a well-formed api_url, succeeds and leaves exactly one
\* definition of the name in tools.py and exactly one reference to it in
\* agent.py.
C1_FreshNameRegisteredOnce ==
    [][\A n \in ToolNames :
          (/\ CalledWith(n)
           /\ WellFormed(ret'.api_url)
           /\ Definitions(tools_file, n) = 0
           /\ References(agent_file, n) = 0)
          => (/\ ret'.result = Success
              /\ Definitions(tools_file', n) = 1
              /\ References(agent_file', n) = 1)]_vars

\* C2: a call for a name that an earlier call already defined is rejected
\* and leaves tools.py and agent.py as they were, and tools.py never holds
\* two definitions of one name.
C2_DuplicateRejected ==
    /\ [][\A n \in ToolNames :
             (CalledWith(n) /\ Definitions(tools_file, n) >= 1)
             => (/\ ret'.result = Failure
                 /\ tools_file' = tools_file
                 /\ agent_file' = agent_file)]_vars
    /\ [](\A n \in AllNames : Definitions(tools_file, n) <= 1)

\* C3: a call without api_host whose api_url has fewer than three
\* '/'-delimited segments returns the failure message and changes neither
\* tools.py nor agent.py.
C3_MalformedUrlFailsBeforeWrite ==
    [][(/\ ncalls' = ncalls + 1
        /\ ~Truthy(ret'.api_host)
        /\ ret'.api_url # None
        /\ Len(Split(ret'.api_url, "/")) < 3)
       => (/\ ret'.result = Failure
           /\ tools_file' = tools_file
           /\ agent_file' = agent_file)]_vars

\* C3 witness: after an earlier successful registration, "u" without a host
\* was refused with IndexError
C3_Witness ==
    /\ ncalls >= 2
    /\ Len(tools_file) >= 2
    /\ ret.api_url = <<"u">>
    /\ ret.api_host = None
    /\ ret.result = Failure
    /\ ret.error = "IndexError"

\* C7: every call without api_url, with or without api_host, appends a
\* definition whose url is the placeholder endpoint.
C7_PlaceholderWhenUrlAbsent ==
    [][(ncalls' = ncalls + 1 /\ ret'.api_url = None)
       => (/\ ret'.result = Success
           /\ Len(tools_file') = Len(tools_file) + 1
           /\ tools_file'[Len(tools_file')].name = ret'.name
           /\ tools_file'[Len(tools_file')].url = PlaceholderUrl)]_vars

\* C8: when agent.py holds both anchors and does not mention the name, a
\* successful call leaves agent.py with an import of the name and with an
\* entry for the name in the tools=[...] list.
C8_ImportAndListEntry ==
    [][\A n \in ToolNames :
          (/\ CalledWith(n)
           /\ ret'.result = Success
           /\ Contains(agent_file, ImportAnchor)
           /\ Contains(agent_file, ListAnchor)
           /\ ~Contains(agent_file, n))
          => (/\ ImportRefs(agent_file', n) >= 1
              /\ ListEntries(agent_file', n) >= 1)]_vars

\* C10: after any sequence of calls agent.py imports each name at most once
\* and lists each name at most once.
C10_NoDuplicateReference ==
    \A n \in AllNames :
        ImportRefs(agent_file, n) <= 1 /\ ListEntries(agent_file, n) <= 1

----------------------------------------------------------------------------
(* Properties of the registrar, statement by statement *)

\* C4: once two callers have both returned success for two distinct new
\* names, both names are defined in tools.py and both are referenced in
\* agent.py.
C4_NoLostUpdate ==
    (/\ pc[1] = "idle" /\ pc[2] = "idle"
     /\ frame[1].result = Success /\ frame[2].result = Success
     /\ ~Contains(frame[1].name, frame[2].name)
     /\ ~Contains(frame[2].name, frame[1].name))
    => \A p \in Callers :
          /\ Definitions(tools_file, frame[p].name) >= 1
          /\ References(agent_file, frame[p].name) >= 1

\* the call of caller p was cut short after the append to tools.py and
\* before agent.py was opened for writing
Interrupted(p) ==
    /\ pc[p] = "idle"
    /\ frame[p].result \in {Crashed, Failure}
    /\ frame[p].at \in {"read", "open"}

\* C5: in every state, also inside a call and after a crash or an I/O error,
\* every name referenced in agent.py is defined in tools.py; a call cut short
\* between the two writes leaves its definition in tools.py and agent.py as
\* it was when the call began.
C5_NoDanglingReference ==
    /\ \A n \in AllNames :
          References(agent_file, n) >= 1 => Definitions(tools_file, n) >= 1
    /\ Interrupted(1) =>
          /\ tools_file = Append(before[1].tools, frame[1].code)
          /\ agent_file = before[1].agent

\* C5 witness: a second call crashed between the writes; the first call had
\* put its name into agent.py
C5_Witness ==
    /\ Interrupted(1)
    /\ frame[1].result = Crashed
    /\ ncalls = 2
    /\ Definitions(tools_file, frame[1].name) = 1
    /\ References(agent_file, frame[1].name) = 0
    /\ \E n \in ToolNames : References(agent_file, n) = 1

----------------------------------------------------------------------------
(* Properties of the list managers *)

\* the calls that may change a list, in order
Changes(hist) == SelectSeq(hist, LAMBDA c : c.action \in {"add", "remove", "complete", "clear"})

Did(action, text) == [action |-> action, text |-> text]

LastIsList(hist) == hist # <<>> /\ hist[Len(hist)].action = "list"

\* C6: from an empty todo list and for a non-empty task t, list after add t
\* shows one entry for t marked not done, after complete t shows it marked
\* done, and after remove t reports the list empty.
C6_TodoAddCompleteRemove ==
    \A t \in Texts \ {NoText, ""} :
        LastIsList(todo_hist) =>
            /\ Changes(todo_hist) = <<Did("add", t)>> =>
                  todo_ret = Reply("Your To-Do List:", NoText,
                                   <<[num |-> 1, mark |-> "cross", task |-> t]>>)
            /\ Changes(todo_hist) = <<Did("add", t), Did("complete", t)>> =>
                  todo_ret = Reply("Your To-Do List:", NoText,
                                   <<[num |-> 1, mark |-> "checked", task |-> t]>>)
            /\ Changes(todo_hist) = <<Did("add", t), Did("complete", t), Did("remove", t)>> =>
                  todo_ret = Reply("Your to-do list is empty.", NoText, <<>>)

\* C6 witness: add, complete, list, remove have run and the entry is gone
C6_Witness ==
    /\ todo_hist = <<Did("add", "m"), Did("complete", "m"), Did("list", NoText),
                     Did("remove", "m")>>
    /\ todo_ret = Reply("Task removed", "m", <<>>)
    /\ todo_list = <<>>

\* C9: from an empty notes list and for a non-empty note n, add n returns
\* the 'Note added' confirmation, a following list shows n alone, list after
\* remove n reports the list empty, and no call returns the 'Error managing
\* notes' result.
C9_NotesAddListRemove ==
    /\ notes_ret.msg # NotesError
    /\ \A n \in Texts \ {NoText, ""} :
          /\ notes_hist = <<Did("add", n)>> => notes_ret = Reply("Note added", n, <<>>)
          /\ (LastIsList(notes_hist) /\ Changes(notes_hist) = <<Did("add", n)>>) =>
                notes_ret = Reply("Your notes:", NoText, <<[num |-> 1, note |-> n]>>)
          /\ (LastIsList(notes_hist)
              /\ Changes(notes_hist) = <<Did("add", n), Did("remove", n)>>) =>
                notes_ret = Reply("Your to-do list is empty.", NoText, <<>>)

====
